---------------------------- MODULE Spec2Model ----------------------------
(***************************************************************************)
(* WebGUI (src/ui/web_gui.py): one producer thread running update() and    *)
(* any number of HTTP sessions running the generator _generate(), sharing  *)
(* the frame cell _output_frame under the mutex _lock.                     *)
(*                                                                         *)
(* Frames are numpy buffers: the model keeps a heap of buffers, so that a  *)
(* reference (what _output_frame holds) and the content it points to are   *)
(* different things, and a copy differs from an alias.  A buffer has two   *)
(* regions that are written and read one after the other: the image region *)
(* (where the boxes are drawn) and the caption region (where the fps text  *)
(* is put).                                                                *)
(***************************************************************************)
EXTENDS Integers, Sequences, FiniteSets, TLC

\* ------------------------------------------------------------- bounds
\* Number of HTTP sessions (client connections) the server accepts.
NumSessions == 2
\* Number of update() calls the processing loop makes.
MaxFrames == 3

\* ------------------------------------------------------------- names
Producer == 0
Sessions == 1..NumSessions
Threads == {Producer} \cup Sessions

\* The history of one session is recorded.  Sessions run the same code and
\* the code never looks at which session it runs in, so the sessions are
\* interchangeable and what holds of this one holds of each.
Watched == CHOOSE s \in Sessions : TRUE

\* _output_frame = None
None == 0
\* the buffer the caller hands to update() as input_frame
InputBuf == 1
\* buffers that input_frame.copy() can allocate: one per possible holder of
\* a reference (the store, each session inside imencode) plus a fresh one
StoreBufs == (InputBuf + 1)..(InputBuf + NumSessions + 2)
Bufs == {InputBuf} \cup StoreBufs

\* the value of detector.fps when the detector implements it
DetectorFps == <<95>>
\* self._displayed_items['fps'] = None
FpsNone == <<>>

VARIABLES
    heap,           \* buffer id -> [img, cap, ok]: the content of each buffer
    output_frame,   \* self._output_frame: None or a buffer id
    holders,        \* the threads inside a section guarded by self._lock
    ppc,            \* the producer's position in update()
    frameNo,        \* number of update() calls made so far
    fps_impl,       \* whether the detector instance implements fps
    displayed_fps,  \* self._displayed_items['fps']
    pc,             \* each session's position in _generate()
    encRef,         \* the array a session's running imencode call holds
    encImg,         \* the image region that imencode has read so far
    flag,           \* (flag, encodedImage) = cv.imencode(...)
    encodedImage,
    out,            \* the chunk a suspended session's yield handed to Flask
    published,      \* history: the frames that completed publishes stored
    lastServed,     \* history: the frame of the last chunk Watched emitted
    baseline,       \* history: publishes completed when Watched connected
                    \*          or emitted its last chunk
    everFailed      \* history: Watched had an encode fail

vars == <<heap, output_frame, holders, ppc, frameNo, fps_impl, displayed_fps,
          pc, encRef, encImg, flag, encodedImage, out,
          published, lastServed, baseline, everFailed>>

prodVars == <<ppc, frameNo, displayed_fps>>
sessVars == <<pc, encRef, encImg, flag, encodedImage, out>>
histVars == <<published, lastServed, baseline, everFailed>>

\* ------------------------------------------------------------- frames
\* memory that no frame was ever written to
BlankFrame ==
    [img |-> [v |-> 0, boxes |-> FALSE],
     cap |-> [v |-> 0, txt |-> <<>>],
     ok  |-> TRUE]

\* a frame as the capture delivers it: frame number k, nothing drawn yet
RawFrame(k, ok) ==
    [img |-> [v |-> k, boxes |-> FALSE],
     cap |-> [v |-> k, txt |-> <<>>],
     ok  |-> ok]

\* the boxes drawn on the image region of a frame
DrawBoxes(f) == [f EXCEPT !.img.boxes = TRUE]

\* the caption written on the caption region of a frame
TextPutter(f, txt) == [f EXCEPT !.cap.txt = txt]

\* str(self._displayed_items['fps'])
StrFps(f) == IF f = FpsNone THEN "None" ELSE ToString(f[1])

\* 'Frames rate = ' + str(fps) + '(fps)'
CaptionText(f) == <<"Frames rate = ", StrFps(f), "(fps)">>

\* encodedImage before the first imencode call returned
NoImage == <<>>
\* the buffer imencode returns with flag = False
EmptyImage == <<"jpeg">>
\* cv.imencode(".jpeg", frame): the JPEG bytes of the pixels it read
JpegEncode(img, cap) == <<"jpeg", img, cap>>
\* the pixel content of a buffer (what a viewer can compare)
Pixels(b) == [img |-> b.img, cap |-> b.cap]
\* the frame a JPEG image shows; an image without data shows nothing
JpegDecode(e) ==
    IF Len(e) = Len(JpegEncode(BlankFrame.img, BlankFrame.cap))
    THEN [img |-> e[2], cap |-> e[3]]
    ELSE Pixels(BlankFrame)

NoChunk == <<>>
\* b"--frame\r\n" b"Content-Type: image/jpeg\r\n\r\n" + bytearray(encodedImage) + b"\r\n"
Chunk(e) == <<"--frame\r\n", "Content-Type: image/jpeg\r\n\r\n", e, "\r\n">>

\* ------------------------------------------------------------- heap
\* buffers some reference still keeps alive
Referenced ==
    {InputBuf} \cup ({output_frame} \ {None})
               \cup {encRef[s] : s \in {t \in Sessions : encRef[t] # None}}

\* the buffer a new array is allocated in
FreshBuf == CHOOSE b \in StoreBufs :
                /\ b \notin Referenced
                /\ \A c \in StoreBufs : c \notin Referenced => b <= c

Init ==
    /\ heap = [b \in Bufs |-> BlankFrame]
    /\ output_frame = None
    /\ holders = {}
    /\ ppc = "idle"
    /\ frameNo = 0
    /\ fps_impl \in BOOLEAN
    /\ displayed_fps = FpsNone
    /\ pc = [s \in Sessions |-> "none"]
    /\ encRef = [s \in Sessions |-> None]
    /\ encImg = [s \in Sessions |-> BlankFrame.img]
    /\ flag = [s \in Sessions |-> FALSE]
    /\ encodedImage = [s \in Sessions |-> NoImage]
    /\ out = [s \in Sessions |-> NoChunk]
    /\ published = <<>>
    /\ lastServed = 0
    /\ baseline = 0
    /\ everFailed = FALSE

\* ------------------------------------------------------------- producer
\* self.__ENGINE_INSTANCE.detector.fps, None when reading it raises
ReadFps == IF fps_impl THEN DetectorFps ELSE FpsNone

\* The processing loop calls update(input_frame, nn_out, distances) with the
\* next frame; ok: whether the image is one that cv.imencode can encode.
\* vis_util.visualize_boxes_and_labels_on_image_array(input_frame, ...) draws
\* the boxes on input_frame in place.
P_Annotate ==
    /\ ppc = "idle"
    /\ frameNo < MaxFrames
    /\ \E ok \in BOOLEAN :
          heap' = [heap EXCEPT ![InputBuf] = DrawBoxes(RawFrame(frameNo + 1, ok))]
    /\ frameNo' = frameNo + 1
    /\ ppc' = "caption"
    /\ UNCHANGED <<output_frame, holders, fps_impl, displayed_fps>>
    /\ UNCHANGED <<sessVars, histVars>>

\* P_Caption without the try/except: when reading detector.fps raises, the
\* exception leaves update() and nothing is published
P_Caption_NoExcept ==
    /\ ppc = "caption"
    /\ IF fps_impl
       THEN /\ displayed_fps' = DetectorFps
            /\ heap' = [heap EXCEPT ![InputBuf] = TextPutter(@, CaptionText(DetectorFps))]
            /\ ppc' = "acquire"
       ELSE /\ UNCHANGED <<displayed_fps, heap>>
            /\ ppc' = "idle"
    /\ UNCHANGED <<output_frame, holders, frameNo, fps_impl>>
    /\ UNCHANGED <<sessVars, histVars>>

\* try: self._displayed_items['fps'] = self.__ENGINE_INSTANCE.detector.fps
\* except: self._displayed_items['fps'] = None
\* txt = 'Frames rate = ' + str(self._displayed_items['fps']) + '(fps)'
\* vis_util.text_putter(input_frame, txt, origin): writes the caption in place
P_Caption ==
    /\ ppc = "caption"
    /\ displayed_fps' = ReadFps
    /\ heap' = [heap EXCEPT ![InputBuf] = TextPutter(@, CaptionText(ReadFps))]
    /\ ppc' = "acquire"
    /\ UNCHANGED <<output_frame, holders, frameNo, fps_impl>>
    /\ UNCHANGED <<sessVars, histVars>>

\* with self._lock:   (entry)
P_Acquire ==
    /\ ppc = "acquire"
    /\ holders = {}
    /\ holders' = {Producer}
    /\ ppc' = "publish"
    /\ UNCHANGED <<heap, output_frame, frameNo, fps_impl, displayed_fps>>
    /\ UNCHANGED <<sessVars, histVars>>

\* P_Publish without the copy: self._output_frame = input_frame
P_Publish_Alias ==
    /\ ppc = "publish"
    /\ output_frame' = InputBuf
    /\ published' = Append(published, Pixels(heap[InputBuf]))
    /\ ppc' = "release"
    /\ UNCHANGED <<heap, holders, frameNo, fps_impl, displayed_fps>>
    /\ UNCHANGED <<sessVars, lastServed, baseline, everFailed>>

\* P_Publish that stores only into an empty store:
\* if self._output_frame is None: self._output_frame = input_frame.copy()
P_Publish_KeepFirst ==
    /\ ppc = "publish"
    /\ IF output_frame = None
       THEN /\ heap' = [heap EXCEPT ![FreshBuf] = heap[InputBuf]]
            /\ output_frame' = FreshBuf
       ELSE UNCHANGED <<heap, output_frame>>
    /\ published' = Append(published, Pixels(heap[InputBuf]))
    /\ ppc' = "release"
    /\ UNCHANGED <<holders, frameNo, fps_impl, displayed_fps>>
    /\ UNCHANGED <<sessVars, lastServed, baseline, everFailed>>

\* P_Publish with a buffer pool: a buffer that held a frame before is handed
\* to the store without the new frame being copied into it
P_Publish_Recycled ==
    /\ ppc = "publish"
    /\ heap' = IF heap[FreshBuf] = BlankFrame
               THEN [heap EXCEPT ![FreshBuf] = heap[InputBuf]]
               ELSE heap
    /\ output_frame' = FreshBuf
    /\ published' = Append(published, Pixels(heap[InputBuf]))
    /\ ppc' = "release"
    /\ UNCHANGED <<holders, frameNo, fps_impl, displayed_fps>>
    /\ UNCHANGED <<sessVars, lastServed, baseline, everFailed>>

\* self._output_frame = input_frame.copy()
P_Publish ==
    /\ ppc = "publish"
    /\ heap' = [heap EXCEPT ![FreshBuf] = heap[InputBuf]]
    /\ output_frame' = FreshBuf
    /\ published' = Append(published, Pixels(heap[InputBuf]))
    /\ ppc' = "release"
    /\ UNCHANGED <<holders, frameNo, fps_impl, displayed_fps>>
    /\ UNCHANGED <<sessVars, lastServed, baseline, everFailed>>

\* with self._lock:   (exit); update() returns
P_Release ==
    /\ ppc = "release"
    /\ holders' = holders \ {Producer}
    /\ ppc' = "idle"
    /\ UNCHANGED <<heap, output_frame, frameNo, fps_impl, displayed_fps>>
    /\ UNCHANGED <<sessVars, histVars>>

ProducerStep ==
    \/ P_Annotate
    \/ P_Caption
    \/ P_Acquire
    \/ P_Publish
    \/ P_Release

\* ------------------------------------------------------------- sessions
\* the position in published of the frame f, 0 when no publish stored f
FrameIndex(f) ==
    IF \E k \in 1..Len(published) : published[k] = f
    THEN CHOOSE k \in 1..Len(published) :
            /\ published[k] = f
            /\ \A j \in 1..Len(published) : published[j] = f => j <= k
    ELSE 0

\* video_feed(): Response(self._generate(), ...); Flask starts the generator.
\* The sessions other than Watched are numbered in the order they connect.
S_Connect(s) ==
    /\ pc[s] = "none"
    /\ \A t \in Sessions \ {Watched} : (s # Watched /\ t < s) => pc[t] # "none"
    /\ pc' = [pc EXCEPT ![s] = "top"]
    /\ baseline' = IF s = Watched THEN Len(published) ELSE baseline
    /\ UNCHANGED <<heap, output_frame, holders, prodVars, fps_impl>>
    /\ UNCHANGED <<encRef, encImg, flag, encodedImage, out>>
    /\ UNCHANGED <<published, lastServed, everFailed>>

\* S_Acquire without the lock: the session enters the section at once
S_Acquire_NoWait(s) ==
    /\ pc[s] = "top"
    /\ holders' = holders \cup {s}
    /\ pc' = [pc EXCEPT ![s] = "check"]
    /\ UNCHANGED <<heap, output_frame, prodVars, fps_impl>>
    /\ UNCHANGED <<encRef, encImg, flag, encodedImage, out, histVars>>

\* while True: with self._lock:   (entry)
S_Acquire(s) ==
    /\ pc[s] = "top"
    /\ holders = {}
    /\ holders' = {s}
    /\ pc' = [pc EXCEPT ![s] = "check"]
    /\ UNCHANGED <<heap, output_frame, prodVars, fps_impl>>
    /\ UNCHANGED <<encRef, encImg, flag, encodedImage, out, histVars>>

\* S_Check without the test for None
S_Check_NoSkip(s) ==
    /\ pc[s] = "check"
    /\ pc' = [pc EXCEPT ![s] = "encode"]
    /\ UNCHANGED <<heap, output_frame, holders, prodVars, fps_impl>>
    /\ UNCHANGED <<encRef, encImg, flag, encodedImage, out, histVars>>

\* S_Check whose continue goes back to the top with the lock still held
S_Check_NoRelease(s) ==
    /\ pc[s] = "check"
    /\ pc' = [pc EXCEPT ![s] = IF output_frame = None THEN "top" ELSE "encode"]
    /\ UNCHANGED <<heap, output_frame, holders, prodVars, fps_impl>>
    /\ UNCHANGED <<encRef, encImg, flag, encodedImage, out, histVars>>

\* if self._output_frame is None: continue   (continue leaves the with block)
S_Check(s) ==
    /\ pc[s] = "check"
    /\ IF output_frame = None
       THEN /\ holders' = holders \ {s}
            /\ pc' = [pc EXCEPT ![s] = "top"]
       ELSE /\ holders' = holders
            /\ pc' = [pc EXCEPT ![s] = "encode"]
    /\ UNCHANGED <<heap, output_frame, prodVars, fps_impl>>
    /\ UNCHANGED <<encRef, encImg, flag, encodedImage, out, histVars>>

\* S_EncodeCall that encodes once and keeps the image for later iterations
S_EncodeCall_Cached(s) ==
    /\ pc[s] = "encode"
    /\ IF encodedImage[s] # NoImage
       THEN /\ pc' = [pc EXCEPT ![s] = "flag"]
            /\ encRef' = encRef
       ELSE /\ pc' = [pc EXCEPT ![s] = "readimg"]
            /\ encRef' = [encRef EXCEPT ![s] = output_frame]
    /\ UNCHANGED <<heap, output_frame, holders, prodVars, fps_impl>>
    /\ UNCHANGED <<encImg, flag, encodedImage, out, histVars>>

\* cv.imencode(".jpeg", self._output_frame): the call takes the array the
\* store references; on None it raises cv2.error, which leaves the with
\* block and ends the generator
S_EncodeCall(s) ==
    /\ pc[s] = "encode"
    /\ IF output_frame = None
       THEN /\ holders' = holders \ {s}
            /\ pc' = [pc EXCEPT ![s] = "closed"]
            /\ encRef' = encRef
       ELSE /\ holders' = holders
            /\ pc' = [pc EXCEPT ![s] = "readimg"]
            /\ encRef' = [encRef EXCEPT ![s] = output_frame]
    /\ UNCHANGED <<heap, output_frame, prodVars, fps_impl>>
    /\ UNCHANGED <<encImg, flag, encodedImage, out, histVars>>

\* imencode reads the image region of the array
S_ReadImg(s) ==
    /\ pc[s] = "readimg"
    /\ encImg' = [encImg EXCEPT ![s] = heap[encRef[s]].img]
    /\ pc' = [pc EXCEPT ![s] = "readcap"]
    /\ UNCHANGED <<heap, output_frame, holders, prodVars, fps_impl>>
    /\ UNCHANGED <<encRef, flag, encodedImage, out, histVars>>

\* imencode reads the caption region and returns (flag, encodedImage)
S_ReadCap(s) ==
    /\ pc[s] = "readcap"
    /\ flag' = [flag EXCEPT ![s] = heap[encRef[s]].ok]
    /\ encodedImage' = [encodedImage EXCEPT ![s] =
            IF heap[encRef[s]].ok
            THEN JpegEncode(encImg[s], heap[encRef[s]].cap)
            ELSE EmptyImage]
    /\ encImg' = [encImg EXCEPT ![s] = BlankFrame.img]
    /\ encRef' = [encRef EXCEPT ![s] = None]
    /\ pc' = [pc EXCEPT ![s] = "flag"]
    /\ UNCHANGED <<heap, output_frame, holders, prodVars, fps_impl>>
    /\ UNCHANGED <<out, histVars>>

\* S_CheckFlag with the yield inside the with block: the lock is kept
S_CheckFlag_KeepLock(s) ==
    /\ pc[s] = "flag"
    /\ IF ~flag[s]
       THEN /\ pc' = [pc EXCEPT ![s] = "top"]
            /\ holders' = holders \ {s}
            /\ everFailed' = (everFailed \/ s = Watched)
       ELSE /\ pc' = [pc EXCEPT ![s] = "emit"]
            /\ holders' = holders
            /\ everFailed' = everFailed
    /\ UNCHANGED <<heap, output_frame, prodVars, fps_impl>>
    /\ UNCHANGED <<encRef, encImg, flag, encodedImage, out>>
    /\ UNCHANGED <<published, lastServed, baseline>>

\* S_CheckFlag without the test of flag
S_CheckFlag_NoSkip(s) ==
    /\ pc[s] = "flag"
    /\ holders' = holders \ {s}
    /\ pc' = [pc EXCEPT ![s] = "emit"]
    /\ UNCHANGED <<heap, output_frame, prodVars, fps_impl>>
    /\ UNCHANGED <<encRef, encImg, flag, encodedImage, out, histVars>>

\* S_CheckFlag of a session that remembers the frame it served last and
\* skips an image of the same frame
S_CheckFlag_Dedup(s) ==
    /\ pc[s] = "flag"
    /\ holders' = holders \ {s}
    /\ IF ~flag[s]
       THEN /\ pc' = [pc EXCEPT ![s] = "top"]
            /\ everFailed' = (everFailed \/ s = Watched)
       ELSE /\ pc' = [pc EXCEPT ![s] =
                        IF s = Watched /\ lastServed # 0
                                       /\ FrameIndex(JpegDecode(encodedImage[s])) = lastServed
                        THEN "top" ELSE "emit"]
            /\ everFailed' = everFailed
    /\ UNCHANGED <<heap, output_frame, prodVars, fps_impl>>
    /\ UNCHANGED <<encRef, encImg, flag, encodedImage, out>>
    /\ UNCHANGED <<published, lastServed, baseline>>

\* if not flag: continue      else: the with block ends
S_CheckFlag(s) ==
    /\ pc[s] = "flag"
    /\ holders' = holders \ {s}
    /\ IF ~flag[s]
       THEN /\ pc' = [pc EXCEPT ![s] = "top"]
            /\ everFailed' = (everFailed \/ s = Watched)
       ELSE /\ pc' = [pc EXCEPT ![s] = "emit"]
            /\ everFailed' = everFailed
    /\ UNCHANGED <<heap, output_frame, prodVars, fps_impl>>
    /\ UNCHANGED <<encRef, encImg, flag, encodedImage, out>>
    /\ UNCHANGED <<published, lastServed, baseline>>

\* yield (b"--frame\r\n" ... + bytearray(encodedImage) + b"\r\n"):
\* the generator hands the chunk to Flask and is suspended
S_Yield(s) ==
    /\ pc[s] = "emit"
    /\ out' = [out EXCEPT ![s] = Chunk(encodedImage[s])]
    /\ pc' = [pc EXCEPT ![s] = "yield"]
    /\ lastServed' = IF s = Watched
                     THEN FrameIndex(JpegDecode(encodedImage[s]))
                     ELSE lastServed
    /\ baseline' = IF s = Watched THEN Len(published) ELSE baseline
    /\ UNCHANGED <<heap, output_frame, holders, prodVars, fps_impl>>
    /\ UNCHANGED <<encRef, encImg, flag, encodedImage>>
    /\ UNCHANGED <<published, everFailed>>

\* S_Resume of a session that takes the frame it served out of the store
S_Resume_Consume(s) ==
    /\ pc[s] = "yield"
    /\ out' = [out EXCEPT ![s] = NoChunk]
    /\ pc' = [pc EXCEPT ![s] = "top"]
    /\ output_frame' = None
    /\ UNCHANGED <<heap, holders, prodVars, fps_impl>>
    /\ UNCHANGED <<encRef, encImg, flag, encodedImage, histVars>>

\* the chunk is written to the client; Flask asks the generator for the next
S_Resume(s) ==
    /\ pc[s] = "yield"
    /\ out' = [out EXCEPT ![s] = NoChunk]
    /\ pc' = [pc EXCEPT ![s] = "top"]
    /\ UNCHANGED <<heap, output_frame, holders, prodVars, fps_impl>>
    /\ UNCHANGED <<encRef, encImg, flag, encodedImage, histVars>>

\* S_Close that clears the store when its client goes away
S_Close_Reset(s) ==
    /\ pc[s] = "yield"
    /\ out' = [out EXCEPT ![s] = NoChunk]
    /\ pc' = [pc EXCEPT ![s] = "closed"]
    /\ holders' = holders \ {s}
    /\ output_frame' = None
    /\ UNCHANGED <<heap, prodVars, fps_impl>>
    /\ UNCHANGED <<encRef, encImg, flag, encodedImage, histVars>>

\* the write to the client fails; Flask closes the generator: GeneratorExit
\* is raised at the yield it is suspended at and unwinds its frame (a with
\* block around the yield would be left)
S_Close(s) ==
    /\ pc[s] = "yield"
    /\ out' = [out EXCEPT ![s] = NoChunk]
    /\ pc' = [pc EXCEPT ![s] = "closed"]
    /\ holders' = holders \ {s}
    /\ UNCHANGED <<heap, output_frame, prodVars, fps_impl>>
    /\ UNCHANGED <<encRef, encImg, flag, encodedImage, histVars>>

\* the steps a running generator takes by itself
SessionRun(s) ==
    \/ S_Acquire(s)
    \/ S_Check(s)
    \/ S_EncodeCall(s)
    \/ S_ReadImg(s)
    \/ S_ReadCap(s)
    \/ S_CheckFlag(s)
    \/ S_Yield(s)

Next ==
    \/ P_Annotate
    \/ P_Caption
    \/ P_Acquire
    \/ P_Publish
    \/ P_Release
    \/ \E s \in Sessions : S_Connect(s)
    \/ \E s \in Sessions : S_Acquire(s)
    \/ \E s \in Sessions : S_Check(s)
    \/ \E s \in Sessions : S_EncodeCall(s)
    \/ \E s \in Sessions : S_ReadImg(s)
    \/ \E s \in Sessions : S_ReadCap(s)
    \/ \E s \in Sessions : S_CheckFlag(s)
    \/ \E s \in Sessions : S_Yield(s)
    \/ \E s \in Sessions : S_Resume(s)
    \/ \E s \in Sessions : S_Close(s)

Spec == Init /\ [][Next]_vars

\* Threads are scheduled fairly: a thread that can take a step keeps being
\* able to until it takes one, and then takes it.  threading.Lock promises no
\* order among the threads that wait for it.  A client may stall or go away
\* at any time, so nothing is assumed of S_Connect, S_Resume and S_Close.
FairSpec ==
    /\ Spec
    /\ WF_vars(ProducerStep)
    /\ \A s \in Sessions : WF_vars(SessionRun(s))

\* ------------------------------------------------------------- claims
\* the frame that the image a session holds shows, as a position in published
Held(s) == FrameIndex(JpegDecode(encodedImage[s]))
Latest == Len(published)

\* C1: no tearing.  Whenever an imencode call of a session has succeeded, the
\* image it returned shows, in both regions, one frame that a single publish
\* stored: never parts of two frames, never a frame that was being written.
C1_NoTearing ==
    \A s \in Sessions :
        (pc[s] \in {"flag", "emit", "yield"} /\ flag[s]) => Held(s) # 0

\* a session has encoded a frame while the producer, with the next frame
\* drawn, waits for the lock
C1_Witness ==
    \E s \in Sessions :
        /\ pc[s] = "flag" /\ flag[s]
        /\ ppc = "acquire"
        /\ Latest >= 1

\* C2: latest wins.  After N >= 1 completed publishes the store references
\* the frame of the N-th, and the image a session has encoded while it still
\* holds the lock shows the N-th frame: a publish overwrites, nothing queues.
C2_LatestWins ==
    /\ Latest >= 1 =>
          /\ output_frame # None
          /\ Pixels(heap[output_frame]) = published[Latest]
    /\ \A s \in Sessions :
          (pc[s] = "flag" /\ flag[s]) => JpegDecode(encodedImage[s]) = published[Latest]

\* after the last of several publishes a session has read the store
C2_Witness ==
    /\ Latest = MaxFrames
    /\ MaxFrames >= 2
    /\ \E s \in Sessions : pc[s] = "flag" /\ flag[s] /\ Held(s) = MaxFrames

\* C3: absent before the first publish.  The store is None as long as no
\* publish has completed, and a session that finds it None emits no chunk,
\* is not closed, leaves the lock and goes back to the top of its loop.
C3_AbsentUntilFirstPublish ==
    /\ [](Latest = 0 => output_frame = None)
    /\ [][\A s \in Sessions :
            (pc[s] = "check" /\ output_frame = None /\ pc'[s] # pc[s])
            => /\ pc'[s] = "top"
               /\ out'[s] = NoChunk
               /\ s \notin holders'
               /\ output_frame' = None]_vars

\* a session polls the absent store while the producer waits to publish
C3_Witness ==
    \E s \in Sessions :
        /\ pc[s] = "check"
        /\ output_frame = None
        /\ ppc = "acquire"

\* C4: within one session the chunks show frames in publish order: a chunk
\* that follows a chunk of the k-th published frame shows the m-th published
\* frame with m >= k.
C4_NonDecreasingOrder ==
    (pc[Watched] = "emit" /\ lastServed # 0) =>
        /\ Held(Watched) # 0
        /\ Held(Watched) >= lastServed

\* the session has emitted a chunk and is about to emit one of a later frame
C4_Witness ==
    /\ pc[Watched] = "emit"
    /\ lastServed >= 1
    /\ Held(Watched) > lastServed

\* C5: the producer is not blocked: an update() that waits for the lock gets
\* it.  (Refuted under FairSpec: sessions that take the lock whenever it is
\* free keep the producer waiting for ever.)
C5_ProducerGetsLock == (ppc = "acquire") ~> (ppc = "publish")

\* C6: a session that is about to hand, or has handed, a chunk to Flask does
\* not hold the lock.
C6_NoLockAtYield ==
    \A s \in Sessions : pc[s] \in {"emit", "yield"} => s \notin holders

\* a session is suspended in its write while the producer is inside the lock
C6_Witness ==
    \E s \in Sessions : pc[s] = "yield" /\ out[s] # NoChunk /\ holders = {Producer}

\* C7: no thread encodes while it holds the lock.  (Refuted: imencode runs
\* inside the with block of _generate.)
C7_NoEncodeUnderLock ==
    \A s \in Sessions : pc[s] \in {"readimg", "readcap"} => s \notin holders

\* C8: a failed encode is skipped.  A session that leaves imencode with
\* flag = False emits no chunk, is not closed, releases the lock, leaves the
\* store as it is and goes back to the top of its loop.
C8_EncodeFailureSkipped ==
    [][\A s \in Sessions :
         (pc[s] = "flag" /\ ~flag[s] /\ pc'[s] # pc[s])
         => /\ pc'[s] = "top"
            /\ out'[s] = NoChunk
            /\ s \notin holders'
            /\ output_frame' = output_frame
            /\ heap' = heap]_vars

\* a session that had an encode fail has emitted a chunk of a later frame
C8_Witness ==
    /\ everFailed
    /\ pc[Watched] = "yield"
    /\ out[Watched] # NoChunk
    /\ lastServed >= 2

\* C9: a disconnect is isolated.  When a session is closed at its yield it
\* does not hold the lock, and the step changes neither the lock, the store,
\* the producer nor any other session; a closed session never holds the lock.
C9_DisconnectIsolated ==
    /\ [](\A s \in Sessions : pc[s] = "closed" => s \notin holders)
    /\ [][\A s \in Sessions :
            (pc[s] = "yield" /\ pc'[s] = "closed")
            => /\ s \notin holders
               /\ holders' = holders
               /\ output_frame' = output_frame
               /\ heap' = heap
               /\ ppc' = ppc
               /\ \A t \in Sessions \ {s} : pc'[t] = pc[t] /\ out'[t] = out[t]]_vars

\* one session is closed; the producer has published all its frames and
\* another session is suspended with a chunk of the last one
C9_Witness ==
    \E s, t \in Sessions :
        /\ pc[s] = "closed"
        /\ pc[t] = "yield"
        /\ Latest = MaxFrames
        /\ Held(t) = Latest
        /\ out[t] = Chunk(encodedImage[t])

C11_OtherSessionProgresses ==
    \A t \in Sessions :
        (pc[t] = "top" /\ output_frame # None) ~> (pc[t] = "check")

\* C12: telemetry unavailable.  With a detector that has no fps, the fps item
\* is None once the caption is written, every update() that has returned has
\* published its frame, and the published frame has the boxes and the
\* caption of the fps value None.
C12_FpsUnavailable ==
    ~fps_impl =>
        /\ displayed_fps = FpsNone
        /\ ppc = "idle" => Latest = frameNo
        /\ \A k \in 1..Latest :
              /\ published[k].img = [v |-> k, boxes |-> TRUE]
              /\ published[k].cap = [v |-> k, txt |-> CaptionText(FpsNone)]

\* an update() with a detector without fps has returned
C12_Witness ==
    /\ ~fps_impl
    /\ ppc = "idle"
    /\ frameNo >= 1
    /\ Latest = frameNo
    /\ displayed_fps = FpsNone

\* the threads whose position is inside a section guarded by self._lock
InSection ==
    {p \in {Producer} : ppc \in {"publish", "release"}}
    \cup {s \in Sessions : pc[s] \in {"check", "encode", "readimg", "readcap", "flag"}}

\* C13: mutual exclusion.  At most one thread is inside a guarded section,
\* and it is the thread that holds the lock: the store is not written while
\* a session reads or encodes it.
C13_MutualExclusion ==
    /\ Cardinality(InSection) <= 1
    /\ InSection = holders
    /\ ppc = "publish" => \A s \in Sessions : encRef[s] = None

\* a session is inside imencode while the producer and another session wait
C13_Witness ==
    \E s, t \in Sessions :
        /\ pc[s] = "readcap"
        /\ pc[t] = "top"
        /\ ppc = "acquire"
        /\ holders = {s}

\* C14: copy handoff.  The store and the imencode calls never reference the
\* producer's input buffer, and no step changes the content of the buffer
\* the store references: what the producer draws on its input buffer after a
\* publish reaches neither the store nor a chunk.
C14_CopyHandoff ==
    /\ [](output_frame # InputBuf /\ \A s \in Sessions : encRef[s] # InputBuf)
    /\ [][(output_frame # None /\ output_frame' = output_frame)
            => heap'[output_frame] = heap[output_frame]]_vars
    /\ [][\A s \in Sessions :
            (encRef[s] # None /\ encRef'[s] = encRef[s])
            => heap'[encRef[s]] = heap[encRef[s]]]_vars

\* the next update() has drawn on the input buffer; the store still holds
\* the frame published before and a session serves a chunk of it
C14_Witness ==
    /\ ppc = "acquire"
    /\ Latest >= 1
    /\ Pixels(heap[output_frame]) = published[Latest]
    /\ Pixels(heap[InputBuf]) # published[Latest]
    /\ \E s \in Sessions : pc[s] = "yield" /\ Held(s) = Latest

\* C15: sessions are read-only on the store.  The reference in the store and
\* the content it references change only in the publish step of update().
C15_OnlyPublishWrites ==
    [][(output_frame' # output_frame
          \/ (output_frame # None /\ heap'[output_frame] # heap[output_frame]))
        => (ppc = "publish" /\ ppc' = "release")]_vars

\* sessions have polled, encoded, failed, emitted and closed, and the store
\* holds what the producer published last
C15_Witness ==
    /\ everFailed
    /\ lastServed >= 1
    /\ pc[Watched] = "closed"
    /\ Latest >= 2
    /\ Pixels(heap[output_frame]) = published[Latest]

\* C16: re-serve without deduplication.  Every iteration whose encode
\* succeeded emits a chunk, a single one, made of the image it encoded; when
\* the frame of the previous chunk was the latest and nothing was published
\* since, the chunk shows that same frame again.
C16_ReServe ==
    /\ [](\A s \in Sessions : pc[s] # "yield" => out[s] = NoChunk)
    /\ []((pc[Watched] = "emit" /\ lastServed # 0
             /\ lastServed = baseline /\ Latest = baseline)
          => Held(Watched) = lastServed)
    /\ [][\A s \in Sessions :
            /\ (pc[s] = "flag" /\ flag[s] /\ pc'[s] # "flag") => pc'[s] = "emit"
            /\ (pc[s] = "emit" /\ pc'[s] # "emit")
               => (pc'[s] = "yield" /\ out'[s] = Chunk(encodedImage[s]))
            /\ (pc[s] = "yield" /\ pc'[s] # "yield") => out'[s] = NoChunk]_vars

\* the session is about to emit the frame it emitted in its previous
\* iteration; no frame was published in between
C16_Witness ==
    /\ pc[Watched] = "emit"
    /\ lastServed >= 1
    /\ lastServed = baseline
    /\ Latest = baseline
    /\ Held(Watched) = lastServed

\* C17: first-frame progress: the first update(), waiting for the lock while
\* sessions poll the absent store, gets it and stores its frame.  (Refuted
\* under FairSpec: the polling sessions take the lock whenever it is free.)
C17_FirstUpdateCompletes ==
    (frameNo = 1 /\ ppc = "acquire" /\ output_frame = None)
        ~> (output_frame # None)

\* C18: no natural termination.  No step of the generator itself closes the
\* session; a session is closed only at its yield, suspended with a chunk
\* handed out, by the client going away.
C18_NoNaturalTermination ==
    /\ [][\A s \in Sessions : SessionRun(s) => pc'[s] # "closed"]_vars
    /\ [][\A s \in Sessions :
            (pc[s] # "closed" /\ pc'[s] = "closed")
            => (pc[s] = "yield" /\ out[s] # NoChunk)]_vars

\* a session that polled, had an encode fail and emitted every frame has
\* been closed by its client while another session is still being served
C18_Witness ==
    /\ pc[Watched] = "closed"
    /\ everFailed
    /\ lastServed = MaxFrames
    /\ \E t \in Sessions : pc[t] = "yield"

\* C19: lock discipline.  The lock has at most one owner; the owner is
\* inside a guarded section and its next step is enabled, so a held lock is
\* always on its way to being released; a free lock can be taken by whoever
\* waits for it.
C19_LockDiscipline ==
    /\ Cardinality(holders) <= 1
    /\ holders \subseteq InSection
    /\ Producer \in holders => ENABLED ProducerStep
    /\ \A s \in Sessions : s \in holders => ENABLED SessionRun(s)
    /\ (holders = {} /\ ppc = "acquire") => ENABLED P_Acquire
    /\ \A s \in Sessions : (holders = {} /\ pc[s] = "top") => ENABLED S_Acquire(s)

\* a session owns the lock and is about to leave through the absent-store
\* continue while the producer and another session wait for the lock
C19_Witness ==
    \E s, t \in Sessions :
        /\ holders = {s}
        /\ pc[s] = "check"
        /\ output_frame = None
        /\ pc[t] = "top"
        /\ ppc = "acquire"

\* C20: presence is monotone.  No step makes a present store absent; the
\* store is present once a publish has completed, so a session that has
\* emitted a chunk finds it present at every later check.
C20_PresenceMonotone ==
    /\ [][output_frame # None => output_frame' # None]_vars
    /\ [](Latest >= 1 => output_frame # None)
    /\ []((lastServed >= 1 /\ pc[Watched] = "check") => output_frame # None)

\* the session has emitted a chunk, polls again after every frame was
\* published and finds the store present
C20_Witness ==
    /\ pc[Watched] = "check"
    /\ lastServed >= 1
    /\ Latest = MaxFrames
    /\ output_frame # None
=============================================================================
